---- MODULE Spec2Model ----
(***************************************************************************)
(* Kiwoom daily batch collector (src/src/kiwoom.py, src/src/token_store.py) *)
(* as a state machine: the token manager (get_access_token, fn_au10001),   *)
(* the request layer (_post_tr) and the collection pipeline                *)
(* (fn_ka10099_stock_list, fn_ka10086_daily, fn_ka10001_basic,             *)
(* collect_today_snapshot), with the Redis token cache and the remote API  *)
(* as the environment.                                                     *)
(*                                                                         *)
(* Text is a sequence of characters; a character is a one-element string.  *)
(* A Hangul syllable is written "k_" followed by its romanisation          *)
(* ("k_u" is the syllable of the preferred-share marker).                  *)
(* Durations are in hundredths of a second (0.6 s is 60).                  *)
(***************************************************************************)
EXTENDS Integers, Sequences, FiniteSets, TLC

\* ------------------------------------------------------------------------
\* Operating parameters (kiwoom.py:22-25, 340) in hundredths of a second
\* ------------------------------------------------------------------------
MAX_RETRIES_one_more == 8 + 1
MAX_RETRIES == 8
BASE_SLEEP == 60
MAX_SLEEP == 1500
SUCCESS_SLEEP_SEC == 15
PER_CODE_SLEEP == 12
JITTER_MAX == 30
SAFETY_MARGIN == 30
MIN_TTL == 60

\* ------------------------------------------------------------------------
\* Bounds of the model
\* ------------------------------------------------------------------------
\* Most instruments the list transactions of one run return in total.
MaxItems == 2
\* Most evictions (expiry included) of the cache entry during one run.
MaxEvictions == 1
\* the latest clock reading and expiry, in seconds, a TTL is computed for
MaxInstant == 150

Min(a, b) == IF a <= b THEN a ELSE b
Max(a, b) == IF a >= b THEN a ELSE b

\* ------------------------------------------------------------------------
\* Characters and text
\* ------------------------------------------------------------------------
AsciiDigits == {"0", "1", "2", "3", "4", "5", "6", "7", "8", "9"}
\* \d of a str pattern matches every Unicode decimal digit, not only 0-9.
OtherDecimalDigits == {"arabic_indic_1", "fullwidth_1"}
UpperLetters ==
    <<"A", "B", "C", "D", "E", "F", "G", "H", "I", "J", "K", "L", "M",
      "N", "O", "P", "Q", "R", "S", "T", "U", "V", "W", "X", "Y", "Z">>
LowerLetters ==
    <<"a", "b", "c", "d", "e", "f", "g", "h", "i", "j", "k", "l", "m",
      "n", "o", "p", "q", "r", "s", "t", "u", "v", "w", "x", "y", "z">>
Hangul ==
    {"k_bal", "k_hae", "k_ri", "k_cheu", "k_seu", "k_paek", "k_u", "k_seon",
     "k_mul", "k_in", "k_beo", "k_re", "k_ji", "k_keo", "k_deu", "k_kol",
     "k_hap", "k_seong", "k_hwan", "k_he", "k_ko", "k_pi", "k_mi", "k_guk",
     "k_aek", "k_ti", "k_beu", "k_bu", "k_dong", "k_san", "k_chae",
     "k_gwon", "k_dan", "k_gi", "k_jung", "k_jang", "k_won", "k_yu",
     "k_ren", "k_teu", "k_geum", "k_eun", "k_gu", "k_cheol", "k_gang",
     "k_gok", "k_dal", "k_reo", "k_en", "k_ro", "k_wi", "k_an", "k_ju",
     "k_sam", "k_jeon", "k_ja", "k_ha", "k_i", "k_nik"}
Whitespace == {" ", "\t", "\n"}

Range(s) == {s[i] : i \in 1..Len(s)}

\* str.upper() on one character.
UpperChar(c) ==
    IF \E i \in 1..26 : LowerLetters[i] = c
    THEN UpperLetters[CHOOSE i \in 1..26 : LowerLetters[i] = c]
    ELSE c

\* str.upper()
Upper(s) == [i \in 1..Len(s) |-> UpperChar(s[i])]

\* str.strip()
RECURSIVE LStrip(_)
LStrip(s) ==
    IF s # <<>> /\ Head(s) \in Whitespace THEN LStrip(Tail(s)) ELSE s
RECURSIVE RStrip(_)
RStrip(s) ==
    IF s # <<>> /\ s[Len(s)] \in Whitespace
    THEN RStrip(SubSeq(s, 1, Len(s) - 1))
    ELSE s
Strip(s) == RStrip(LStrip(s))

\* t in s (substring test)
Contains(s, t) ==
    \E i \in 1..(Len(s) - Len(t) + 1) : SubSeq(s, i, i + Len(t) - 1) = t

\* any(t in s for t in tokens)
ContainsAny(s, tokens) ==
    \E k \in 1..Len(tokens) : Contains(s, tokens[k])

\* \w of a str pattern
IsWordChar(c) ==
    \/ c \in AsciiDigits \cup OtherDecimalDigits
    \/ c \in Range(UpperLetters) \cup Range(LowerLetters)
    \/ c \in Hangul
    \/ c = "_"

\* \b between positions i-1 and i of s (i in 1..Len(s)+1)
WordBoundary(s, i) ==
    LET before == i > 1 /\ IsWordChar(s[i - 1])
        after == i <= Len(s) /\ IsWordChar(s[i])
    IN  before # after

\* ------------------------------------------------------------------------
\* Instrument classifier (kiwoom.py:53-120)
\* ------------------------------------------------------------------------
ETF_BRANDS ==
    << <<"T", "I", "G", "E", "R">>,
       <<"K", "O", "D", "E", "X">>,
       <<"K", "O", "S", "E", "F">>,
       <<"K", "B", "S", "T", "A", "R">>,
       <<"A", "R", "I", "R", "A", "N", "G">>,
       <<"H", "A", "N", "A", "R", "O">>,
       <<"S", "O", "L">>,
       <<"A", "C", "E">>,
       <<"T", "I", "M", "E", "F", "O", "L", "I", "O">>,
       <<"T", "R", "E", "X">>,
       <<"K", "I", "N", "D", "E", "X">>,
       <<"R", "I", "S", "E">>,
       <<"F", "O", "C", "U", "S">>,
       <<"P", "L", "U", "S">>,
       <<"U", "N", "I", "C", "O", "R", "N">>,
       <<"1", "Q">>,
       <<"Q", "V">>,
       <<"K", "I", "W", "O", "O", "M">>,
       <<"K", "B", "k_bal", "k_hae">> >>

NON_STOCK_TOKENS ==
    << <<"E", "T", "F">>,
       <<"E", "T", "N">>,
       <<"E", "T", "C">>,
       <<"k_ri", "k_cheu">>,
       <<"R", "E", "I", "T">>,
       <<"k_seu", "k_paek">>,
       <<"S", "P", "A", "C">>,
       <<"k_u", "k_seon">>,
       <<"k_seon", "k_mul">>,
       <<"k_in", "k_beo", "k_seu">>,
       <<"k_re", "k_beo", "k_ri", "k_ji">>,
       <<"k_keo", "k_beo", "k_deu", "k_kol">>,
       <<"k_hap", "k_seong">>,
       <<"(", "H", ")">>,
       <<"H", ")">>,
       <<"k_hwan", "k_he", "k_ji">>,
       <<"k_he", "k_ji">>,
       <<"S", "&", "P">>,
       <<"N", "A", "S", "D", "A", "Q">>,
       <<"N", "I", "K", "K", "E", "I">>,
       <<"D", "A", "X">>,
       <<"E", "U", "R", "O">>,
       <<"K", "O", "S", "P", "I", "2", "0", "0">>,
       <<"k_ko", "k_seu", "k_pi", "2", "0", "0">>,
       <<"k_ko", "k_seu", "k_pi">>,
       <<"2", "0", "0">>,
       <<"1", "0", "0">>,
       <<"k_mi", "k_guk">>,
       <<"k_aek", "k_ti", "k_beu">>,
       <<"B", "N", "K">>,
       <<"k_bu", "k_dong", "k_san">>,
       <<"k_guk", "k_chae">>,
       <<"k_chae", "k_gwon">>,
       <<"k_dan", "k_gi", "k_chae">>,
       <<"k_jung", "k_gi", "k_chae">>,
       <<"k_jang", "k_gi", "k_chae">>,
       <<"k_won", "k_yu">>,
       <<"W", "T", "I">>,
       <<"k_beu", "k_ren", "k_teu">>,
       <<"k_geum">>,
       <<"k_eun">>,
       <<"k_gu", "k_ri">>,
       <<"k_cheol", "k_gang">>,
       <<"k_gok", "k_mul">>,
       <<"k_dal", "k_reo">>,
       <<"U", "S", "D">>,
       <<"k_en">>,
       <<"J", "P", "Y">>,
       <<"k_yu", "k_ro">>,
       <<"E", "U", "R">>,
       <<"k_wi", "k_an">>,
       <<"C", "N", "Y">> >>

\* the company-class markers of is_non_common_stock
CLASS_HINTS ==
    << <<"k_seu", "k_paek">>,
       <<"S", "P", "A", "C">>,
       <<"k_ri", "k_cheu">>,
       <<"R", "E", "I", "T">>,
       <<"E", "T", "F">>,
       <<"E", "T", "N">> >>

\* the literal alternatives of NON_STOCK_REGEX
REGEX_WORDS ==
    << <<"k_re", "k_beo", "k_ri", "k_ji">>,
       <<"k_in", "k_beo", "k_seu">>,
       <<"k_seon", "k_mul">>,
       <<"k_keo", "k_beo", "k_deu", "k_kol">>,
       <<"k_hap", "k_seong">>,
       <<"(", "H", ")">>,
       <<"E", "T", "F">>,
       <<"E", "T", "N">>,
       <<"R", "E", "I", "T">>,
       <<"k_ri", "k_cheu">>,
       <<"S", "P", "A", "C">>,
       <<"k_seu", "k_paek">>,
       <<"k_u", "k_seon">> >>

\* PREFERRED_REGEX.search(n): (?:\d*u[B-C]?|u-seon|u-seon-ju), where the
\* digits and the suffix letter are optional.
PREFERRED_REGEX(n) ==
    \/ \E i \in 1..Len(n) : n[i] = "k_u"
    \/ Contains(n, <<"k_u", "k_seon">>)
    \/ Contains(n, <<"k_u", "k_seon", "k_ju">>)

\* NON_STOCK_REGEX.search(n): \b[23]X\b or one of the literal alternatives,
\* ignoring case.
NON_STOCK_REGEX(n) ==
    \/ \E i \in 1..(Len(n) - 1) :
          /\ n[i] \in {"2", "3"}
          /\ UpperChar(n[i + 1]) = "X"
          /\ WordBoundary(n, i)
          /\ WordBoundary(n, i + 2)
    \/ ContainsAny(Upper(n), REGEX_WORDS)

\* KR_CODE_REGEX.fullmatch(code): ^\d{6}$
KR_CODE_REGEX(code) ==
    /\ Len(code) = 6
    /\ \A i \in 1..6 : code[i] \in AsciiDigits \cup OtherDecimalDigits

is_non_common_stock(name, company_class) ==
    LET n == Upper(name)
        c == Upper(company_class)
    IN  \/ PREFERRED_REGEX(n)
        \/ ContainsAny(c, CLASS_HINTS)
        \/ ContainsAny(n, ETF_BRANDS)
        \/ \E k \in 1..Len(NON_STOCK_TOKENS) :
              Contains(n, Upper(NON_STOCK_TOKENS[k]))
        \/ NON_STOCK_REGEX(n)

KeepsItem_code_only(item) == KR_CODE_REGEX(Strip(item.code))

\* whether filter_stock_list keeps the item
KeepsItem(item) ==
    LET code == Strip(item.code)
        name == Strip(item.name)
        company_class == Strip(item.companyClassName)
    IN  /\ KR_CODE_REGEX(code)
        /\ ~is_non_common_stock(name, company_class)

filter_stock_list_drops_first(items) ==
    LET kept == SelectSeq(items, KeepsItem)
    IN  IF kept = <<>> THEN <<>> ELSE Tail(kept)

\* the loop of lines 109-119: the kept items, as they came, in input order
filter_stock_list(items) == SelectSeq(items, KeepsItem)

\* ------------------------------------------------------------------------
\* The environment: what the servers can answer
\* ------------------------------------------------------------------------
\* statuses _post_tr retries on (kiwoom.py:216)
TRANSIENT == {429, 500, 502, 503, 504}

\* statuses the market-data API answers with in the model
ServerStatuses == {200, 400, 429, 503}

\* Retry-After of a transient response, as HTTP defines it: absent (or
\* empty), a non-negative number of seconds (as hundredths), or an HTTP
\* date, which float() rejects.
RetryAfterValues == {200}
RetryAfterHeaders ==
    {[kind |-> "absent", value |-> 0], [kind |-> "unparseable", value |-> 0]}
    \cup {[kind |-> "numeric", value |-> v] : v \in RetryAfterValues}

\* random.uniform(0, 0.3): the two ends of the interval
Jitters == {0, JITTER_MAX}

\* instruments the list transaction can return
Catalogue ==
    { [code |-> <<"0", "0", "5", "9", "3", "0">>,
       name |-> <<"k_sam", "k_seong", "k_jeon", "k_ja">>,
       companyClassName |-> <<>>],
      [code |-> <<"0", "0", "0", "6", "6", "0">>,
       name |-> <<"S", "K", "k_ha", "k_i", "k_nik", "k_seu">>,
       companyClassName |-> <<>>],
      [code |-> <<"0", "6", "9", "5", "0", "0">>,
       name |-> <<"K", "O", "D", "E", "X", " ", "2", "0", "0">>,
       companyClassName |-> <<"E", "T", "F">>] }

SeqsUpTo(S, n) == UNION {[1..k -> S] : k \in 0..n}

\* body["daly_stkpc"] of ka10086: no rows, a first row that is an empty
\* object, a row of numeric fields, a row with a field int(float()) rejects
DailyKinds == {"norows", "emptyrow", "row", "badrow"}

\* body of ka10001: numeric flo_stk and mac, or a field int(float()) rejects
BasicKinds == {"numeric", "nonnumeric"}

NoBody == [list |-> <<>>, daly_stkpc |-> "norows", basic |-> "numeric"]

\* the 200 bodies the API can answer a transaction of phase ph with, when
\* the run has accumulated n instruments so far
Bodies(ph, n) ==
    IF ph = "list"
    THEN {[NoBody EXCEPT !.list = l] : l \in SeqsUpTo(Catalogue, MaxItems - n)}
    ELSE IF ph = "price"
    THEN {[NoBody EXCEPT !.daly_stkpc = k] : k \in DailyKinds}
    ELSE {[NoBody EXCEPT !.basic = k] : k \in BasicKinds}

NoResponse == [kind |-> "none", status |-> 0, body |-> NoBody,
               retry_after |-> [kind |-> "absent", value |-> 0]]

\* what one requests.post of _post_tr can come back with: a connection
\* failure (the call raises), or an HTTP response; Retry-After is read on
\* transient responses only
Responses(ph, n) ==
    {[NoResponse EXCEPT !.kind = "neterr"]}
    \cup {[NoResponse EXCEPT !.kind = "http", !.status = 200, !.body = b] :
            b \in Bodies(ph, n)}
    \cup {[NoResponse EXCEPT !.kind = "http", !.status = s] :
            s \in ServerStatuses \ ({200} \cup TRANSIENT)}
    \cup {[NoResponse EXCEPT !.kind = "http", !.status = s, !.retry_after = ra] :
            s \in ServerStatuses \cap TRANSIENT, ra \in RetryAfterHeaders}

\* instants in seconds on the KST clock
NowInstants == {100}
ExpiryInstants == {3700}

NoIssuerResponse ==
    [http |-> "none", token |-> <<>>, expires_kind |-> "absent",
     expires_dt |-> 0, token_type |-> "Bearer"]

\* what the token endpoint can answer the n-th credential grant with: an
\* HTTP error (raise_for_status), or a body whose token is the fresh token
\* <<n>> or missing, and whose expires_dt is a timestamp, missing, empty or
\* not in the %Y%m%d%H%M%S format
IssuerResponses(n) ==
    {[NoIssuerResponse EXCEPT !.http = "error"]}
    \cup {[NoIssuerResponse EXCEPT !.http = "ok", !.token = t,
                                   !.expires_kind = k] :
            t \in {<<>>, <<n>>}, k \in {"absent", "empty", "malformed"}}
    \cup {[NoIssuerResponse EXCEPT !.http = "ok", !.token = t,
                                   !.expires_kind = "valid", !.expires_dt = e] :
            t \in {<<>>, <<n>>}, e \in ExpiryInstants}

\* ------------------------------------------------------------------------
\* Token manager helpers (kiwoom.py:28-36, token_store.py:17-25)
\* ------------------------------------------------------------------------
ttl_from_expires_dt_no_floor(expires_dt, now) ==
    (expires_dt - now) - SAFETY_MARGIN

\* instants are whole seconds on the KST clock; the difference of two aware
\* datetimes of whole seconds is a whole number, which int() leaves alone
ttl_from_expires_dt(expires_dt, now) ==
    LET ttl == (expires_dt - now) - SAFETY_MARGIN
    IN  Max(MIN_TTL, ttl)

\* RedisTokenStore.set_token: the entry the key holds afterwards
set_token(token, ttl_seconds, token_type) ==
    <<[token |-> token, token_type |-> token_type,
       ex |-> Max(MIN_TTL, ttl_seconds)]>>

\* RedisTokenStore.get_token: <<>> is None, <<e>> the decoded entry
get_token(c) == c

CacheHit_any_entry(cached) == cached # <<>>

CacheHit_wrong_key(cached) == FALSE

\* "cached and cached.get('token')"
CacheHit(cached) == cached # <<>> /\ cached[1].token # <<>>

IssuanceMalformed_token_only(resp) == resp.token = <<>>

\* "not token or not expires_dt" of fn_au10001
IssuanceMalformed(resp) ==
    resp.token = <<>> \/ resp.expires_kind \in {"absent", "empty"}

\* ------------------------------------------------------------------------
\* Request layer helpers (kiwoom.py:208-232)
\* ------------------------------------------------------------------------
IsTransient_any_error(status) == status # 200

IsTransient(status) == status \in TRANSIENT

\* the sleep before the next attempt
SleepFor(retry_after, backoff, jitter) ==
    IF retry_after.kind = "numeric" THEN retry_after.value
    ELSE IF retry_after.kind = "unparseable" THEN backoff
    ELSE Min(MAX_SLEEP, backoff) + jitter

\* the draws of random.uniform a response leads to: the jitter is drawn
\* only when Retry-After is absent or empty
JittersFor(r) ==
    IF r.kind = "http" /\ IsTransient(r.status) /\ r.retry_after.kind = "absent"
    THEN Jitters
    ELSE {0}

NextBackoff_uncapped(backoff) == backoff * 2

NextBackoff_halving(backoff) == backoff \div 2

NextBackoff(backoff) == Min(MAX_SLEEP, backoff * 2)

AttemptToken_from_cache(tok, c) == IF c # <<>> THEN c[1].token ELSE <<>>

\* the bearer token an attempt carries: the headers are built once, before
\* the loop, from the token get_access_token returned (kiwoom.py:197-210)
AttemptToken(tok, c) == tok

ApiId(ph) ==
    IF ph = "list" THEN "ka10099"
    ELSE IF ph = "price" THEN "ka10086"
    ELSE "ka10001"

\* ------------------------------------------------------------------------
\* State
\* ------------------------------------------------------------------------
VARIABLES
    \* collect_today_snapshot and fn_ka10099_stock_list
    markets,        \* the markets argument
    qry_dt,         \* the query date
    now,            \* the KST clock at the credential grant, in seconds
    rival,          \* a second collector process on the same cache key
    mi,             \* position in markets of the list request in progress
    all_items,      \* instruments accumulated by fn_ka10099_stock_list
    stocks,         \* the instruments the filter kept
    codes,          \* codes of the instruments the filter kept
    idx,            \* position in codes of the per-code loop
    daily,          \* the price record of the current code
    basic,          \* the fundamentals of the current code
    out,            \* rows collected so far
    pc,             \* where the run is
    phase,          \* the transaction in progress: list, price or basic
    exc,            \* the exception in flight (or the one that ended the run)
    \* _post_tr and get_access_token: the call in progress
    token,          \* the bearer token of the call
    backoff,        \* the backoff of the retry loop
    attempt,        \* HTTP attempts made by the call
    body,           \* the body the call returned
    sleeps,         \* retry sleeps made by the call
    lastSleep,      \* the sleep of the last pass of the retry loop, if any
    tokenCalls,     \* get_access_token invocations made by the call
    sentAuth,       \* the token the last attempt carried
    lastResponse,   \* the last response of the market-data API
    issuerResp,     \* the answer to the call's credential grant
    ttl,            \* the TTL fn_au10001 computed from it
    \* the token cache and the token endpoint
    cache,          \* the entry under the cache key: <<>> or <<entry>>
    grantCalls,     \* credential-grant requests sent in the run
    setCalls,       \* set_token calls made by the call
    evictions,      \* evictions of the cache entry in the run
    \* what the run did
    perCodeSleeps,  \* time.sleep(per_code_sleep) calls
    listSleeps,     \* time.sleep(SUCCESS_SLEEP_SEC) calls
    caught          \* exceptions the per-code loop caught

pipeVars == <<markets, qry_dt, now, rival, mi, all_items, stocks, codes, idx,
              daily, basic, out>>
callVars == <<token, backoff, attempt, body, sleeps, lastSleep, tokenCalls,
              sentAuth, lastResponse, issuerResp, ttl, setCalls>>
cacheVars == <<cache, grantCalls, evictions>>
runVars == <<perCodeSleeps, listSleeps, caught>>
vars == <<pipeVars, pc, phase, exc, callVars, cacheVars, runVars>>

\* no second collector runs
NoRival == [pc |-> "absent", token |-> <<>>, issued |-> <<>>,
            grants |-> 0, sets |-> 0]

NoExc == [kind |-> "none", site |-> "", api_id |-> ""]
NoSleep == [retry_after |-> "none", backoff |-> 0, d |-> 0, prev |-> 0]

\* cache entries a run can find at its start: none, one whose token is
\* empty, one left by an earlier run
InitialCaches ==
    {<<>>, set_token(<<>>, 3570, "Bearer"), set_token(<<0>>, 3570, "Bearer")}

\* the locals of collect_today_snapshot before its first statement
InitPipeline ==
    /\ qry_dt = "20240102"
    /\ mi = 0
    /\ stocks = <<>>
    /\ codes = <<>>
    /\ idx = 0
    /\ daily = "None"
    /\ basic = "None"
    /\ out = <<>>

\* no _post_tr call has begun
InitCall ==
    /\ phase = "none"
    /\ exc = NoExc
    /\ token = <<>>
    /\ backoff = 0
    /\ attempt = 0
    /\ body = NoBody
    /\ sleeps = 0
    /\ lastSleep = NoSleep
    /\ tokenCalls = 0
    /\ sentAuth = <<>>
    /\ lastResponse = NoResponse
    /\ ttl = 0
    /\ setCalls = 0

InitRun ==
    /\ grantCalls = 0
    /\ evictions = 0
    /\ perCodeSleeps = 0
    /\ listSleeps = 0
    /\ caught = 0

Init ==
    /\ markets \in {<<>>, <<"0">>, <<"0", "10">>}
    /\ now \in NowInstants
    /\ rival = NoRival
    /\ all_items = <<>>
    /\ pc = "start"
    /\ issuerResp = NoIssuerResponse
    /\ cache \in InitialCaches
    /\ InitPipeline
    /\ InitCall
    /\ InitRun

\* ------------------------------------------------------------------------
\* Steps shared by the actions
\* ------------------------------------------------------------------------
\* entering _post_tr for the transaction of phase ph (kiwoom.py:189-197)
BeginCall(ph) ==
    /\ phase' = ph
    /\ pc' = "get_token"
    /\ exc' = NoExc
    /\ token' = <<>>
    /\ backoff' = 0
    /\ attempt' = 0
    /\ body' = NoBody
    /\ sleeps' = 0
    /\ lastSleep' = NoSleep
    /\ tokenCalls' = 0
    /\ sentAuth' = <<>>
    /\ lastResponse' = NoResponse
    /\ issuerResp' = NoIssuerResponse
    /\ ttl' = 0
    /\ setCalls' = 0

\* raise: the exception leaves the function it is raised in
Raise(kind, site, api_id) ==
    /\ pc' = "exc"
    /\ exc' = [kind |-> kind, site |-> site, api_id |-> api_id]

\* get_access_token returns tok: _post_tr builds its headers and enters the
\* retry loop (kiwoom.py:197-209)
EnterRetryLoop(tok) ==
    /\ token' = tok
    /\ backoff' = BASE_SLEEP
    /\ attempt' = 0
    /\ pc' = "post"

\* collect_today_snapshot returns out: the locals of the last call are gone
ReturnOut ==
    /\ pc' = "done"
    /\ phase' = "none"
    /\ exc' = NoExc
    /\ token' = <<>>
    /\ backoff' = 0
    /\ attempt' = 0
    /\ body' = NoBody
    /\ sleeps' = 0
    /\ lastSleep' = NoSleep
    /\ tokenCalls' = 0
    /\ sentAuth' = <<>>
    /\ lastResponse' = NoResponse
    /\ issuerResp' = NoIssuerResponse
    /\ ttl' = 0
    /\ setCalls' = 0

NextCode_retries_code ==
    /\ idx' = idx
    /\ daily' = "None"
    /\ basic' = "None"
    /\ IF idx < Len(codes)
       THEN BeginCall("price")
       ELSE ReturnOut

\* the per-code loop moves to the next code, or collect_today_snapshot
\* returns out (kiwoom.py:365, 395)
NextCode ==
    /\ idx' = idx + 1
    /\ daily' = "None"
    /\ basic' = "None"
    /\ IF idx < Len(codes)
       THEN BeginCall("price")
       ELSE ReturnOut

\* ------------------------------------------------------------------------
\* Token manager (kiwoom.py:133-184)
\* ------------------------------------------------------------------------
\* get_access_token, first read of the cache (kiwoom.py:170-172)
GetToken ==
    /\ pc = "get_token"
    /\ tokenCalls' = tokenCalls + 1
    /\ LET cached == get_token(cache)
       IN  IF CacheHit(cached)
           THEN EnterRetryLoop(cached[1].token)
           ELSE /\ pc' = "issue"
                /\ UNCHANGED <<token, backoff, attempt>>
    /\ UNCHANGED <<pipeVars, phase, exc, body, sleeps, lastSleep, sentAuth,
                   lastResponse, issuerResp, ttl, setCalls, cacheVars, runVars>>

\* fn_au10001: the credential grant, the parse of its answer and the write
\* to the cache (kiwoom.py:133-154)
IssueToken ==
    /\ pc = "issue"
    /\ grantCalls' = grantCalls + 1
    /\ \E resp \in IssuerResponses(grantCalls + 1) :
          /\ issuerResp' = resp
          /\ IF resp.http = "error"
             THEN /\ Raise("HTTPError", "fn_au10001:139", "")
                  /\ UNCHANGED <<cache, setCalls, ttl>>
             ELSE IF IssuanceMalformed(resp)
             THEN /\ Raise("TokenIssuanceError", "fn_au10001:147", "")
                  /\ UNCHANGED <<cache, setCalls, ttl>>
             ELSE IF resp.expires_kind # "valid"
             THEN /\ Raise("ValueError", "ttl_from_expires_dt:33", "")
                  /\ UNCHANGED <<cache, setCalls, ttl>>
             ELSE /\ ttl' = ttl_from_expires_dt(resp.expires_dt, now)
                  /\ cache' = set_token(resp.token, ttl', resp.token_type)
                  /\ setCalls' = setCalls + 1
                  /\ pc' = "reread"
                  /\ UNCHANGED exc
    /\ UNCHANGED <<pipeVars, phase, token, backoff, attempt, body, sleeps,
                   lastSleep, tokenCalls, sentAuth, lastResponse, evictions,
                   runVars>>

Reread_trusts_issuer ==
    /\ pc = "reread"
    /\ EnterRetryLoop(issuerResp.token)
    /\ UNCHANGED <<pipeVars, phase, exc, body, sleeps, lastSleep, tokenCalls,
                   sentAuth, lastResponse, issuerResp, ttl, setCalls, cacheVars,
                   runVars>>

\* get_access_token, second read of the cache (kiwoom.py:181-184)
Reread ==
    /\ pc = "reread"
    /\ LET cached == get_token(cache)
       IN  IF ~CacheHit(cached)
           THEN /\ Raise("TokenIssuanceError", "get_access_token:183", "")
                /\ UNCHANGED <<token, backoff, attempt>>
           ELSE /\ EnterRetryLoop(cached[1].token)
                /\ UNCHANGED exc
    /\ UNCHANGED <<pipeVars, phase, body, sleeps, lastSleep, tokenCalls,
                   sentAuth, lastResponse, issuerResp, ttl, setCalls, cacheVars, runVars>>

\* the cache entry expires or is evicted (Redis, outside the collector);
\* the collector can tell only at its reads of the cache and between the
\* attempts of a call, so the step is taken there
Evict ==
    /\ pc \in {"get_token", "reread", "post"}
    /\ cache # <<>>
    /\ evictions < MaxEvictions
    /\ cache' = <<>>
    /\ evictions' = evictions + 1
    /\ UNCHANGED <<pipeVars, pc, phase, exc, callVars, grantCalls,
                   runVars>>

\* ------------------------------------------------------------------------
\* Request layer: one pass of the retry loop (kiwoom.py:209-232)
\* ------------------------------------------------------------------------
PostAttempt ==
    /\ pc = "post"
    /\ attempt' = attempt + 1
    /\ sentAuth' = AttemptToken(token, cache)
    /\ \E r \in Responses(phase, Len(all_items)) :
       \E jitter \in JittersFor(r) :
          /\ lastResponse' = r
          /\ IF r.kind = "neterr"
             THEN /\ Raise("ConnectionError", "_post_tr:210", "")
                  /\ lastSleep' = NoSleep
                  /\ UNCHANGED <<body, sleeps, backoff>>
             ELSE IF r.status = 200
             THEN /\ body' = r.body
                  /\ pc' = "ret"
                  /\ lastSleep' = NoSleep
                  /\ UNCHANGED <<exc, sleeps, backoff>>
             ELSE IF IsTransient(r.status)
             THEN /\ sleeps' = sleeps + 1
                  /\ lastSleep' =
                        [retry_after |-> r.retry_after.kind,
                         backoff |-> backoff,
                         d |-> SleepFor(r.retry_after, backoff, jitter),
                         prev |-> lastSleep.backoff]
                  /\ backoff' = NextBackoff(backoff)
                  /\ IF attempt + 1 >= MAX_RETRIES
                     THEN Raise("RetryExhaustedError", "_post_tr:232",
                                ApiId(phase))
                     ELSE /\ pc' = "post"
                          /\ UNCHANGED exc
                  /\ UNCHANGED body
             ELSE /\ Raise("TransactionError", "_post_tr:230", ApiId(phase))
                  /\ lastSleep' = NoSleep
                  /\ UNCHANGED <<body, sleeps, backoff>>
    /\ UNCHANGED <<pipeVars, phase, token, tokenCalls, issuerResp, ttl, setCalls,
                   cacheVars, runVars>>

\* ------------------------------------------------------------------------
\* Collection pipeline (kiwoom.py:237-395)
\* ------------------------------------------------------------------------
\* the row collect_today_snapshot builds for a code
Row(code, dt) == [code |-> code, dt |-> dt]

NotDaily_never(kind) == FALSE

\* "not daily": fn_ka10086_daily returned None or an empty record
NotDaily(kind) == kind \in {"norows", "emptyrow"}

\* collect_today_snapshot is called and fn_ka10099_stock_list sends its
\* first list request (kiwoom.py:356-359, 244-248)
Collect ==
    /\ pc = "start"
    /\ IF markets = <<>>
       THEN /\ stocks' = filter_stock_list(all_items)
            /\ codes' = [i \in 1..Len(stocks') |-> stocks'[i].code]
            /\ idx' = 1
            /\ pc' = "done"
            /\ UNCHANGED <<mi, phase, exc, callVars>>
       ELSE /\ mi' = 1
            /\ BeginCall("list")
            /\ UNCHANGED <<stocks, codes, idx>>
    /\ UNCHANGED <<markets, qry_dt, now, rival, all_items, daily, basic, out, cacheVars,
                   runVars>>

\* a list request returned: accumulate, pause, then the next market, or the
\* filter, the return of fn_ka10099_stock_list (its locals all_items and
\* mrkt are gone) and the first code (kiwoom.py:248-255, 359-365)
ListReturn ==
    /\ pc = "ret"
    /\ phase = "list"
    /\ LET items == all_items \o body.list
       IN  /\ listSleeps' = listSleeps + 1
           /\ IF mi < Len(markets)
              THEN /\ all_items' = items
                   /\ mi' = mi + 1
                   /\ BeginCall("list")
                   /\ UNCHANGED <<stocks, codes, idx>>
              ELSE /\ stocks' = filter_stock_list(items)
                   /\ codes' = [i \in 1..Len(stocks') |-> stocks'[i].code]
                   /\ idx' = 1
                   /\ all_items' = <<>>
                   /\ mi' = 0
                   /\ IF stocks' # <<>>
                          THEN BeginCall("price")
                          ELSE ReturnOut
    /\ UNCHANGED <<markets, qry_dt, now, rival, daily, basic, out, cacheVars,
                   perCodeSleeps, caught>>

\* fn_ka10086_daily returned: skip the code or ask for its fundamentals
\* (kiwoom.py:279-284, 367-371)
PriceReturn ==
    /\ pc = "ret"
    /\ phase = "price"
    /\ IF NotDaily(body.daly_stkpc)
       THEN NextCode
       ELSE /\ daily' = body.daly_stkpc
            /\ BeginCall("basic")
            /\ UNCHANGED <<idx, basic>>
    /\ UNCHANGED <<markets, qry_dt, now, rival, mi, all_items, stocks, codes, out, cacheVars,
                   runVars>>

\* _post_tr returned to fn_ka10001_basic, which converts the body
\* (kiwoom.py:318-330)
BasicReturn ==
    /\ pc = "ret"
    /\ phase = "basic"
    /\ IF body.basic = "nonnumeric"
       THEN /\ Raise("ValueError", "_normalize_int:47", "")
            /\ UNCHANGED basic
       ELSE /\ basic' = "record"
            /\ pc' = "merge"
            /\ UNCHANGED exc
    /\ UNCHANGED <<markets, qry_dt, now, rival, mi, all_items, stocks, codes, idx, daily, out,
                   phase, callVars, cacheVars, runVars>>

Merge_prepends ==
    /\ pc = "merge"
    /\ IF daily = "badrow"
       THEN /\ Raise("ValueError", "_normalize_int:47", "")
            /\ UNCHANGED <<pipeVars, phase, callVars, runVars>>
       ELSE /\ out' = <<Row(codes[idx], qry_dt)>> \o out
            /\ perCodeSleeps' = perCodeSleeps + 1
            /\ NextCode
            /\ UNCHANGED <<markets, qry_dt, now, rival, mi, all_items, stocks,
                           codes, listSleeps, caught>>
    /\ UNCHANGED cacheVars

\* the row is built and appended, then the per-code pause
\* (kiwoom.py:373-393)
Merge ==
    /\ pc = "merge"
    /\ IF daily = "badrow"
       THEN /\ Raise("ValueError", "_normalize_int:47", "")
            /\ UNCHANGED <<pipeVars, phase, callVars, runVars>>
       ELSE /\ out' = Append(out, Row(codes[idx], qry_dt))
            /\ perCodeSleeps' = perCodeSleeps + 1
            /\ NextCode
            /\ UNCHANGED <<markets, qry_dt, now, rival, mi, all_items, stocks, codes, listSleeps,
                           caught>>
    /\ UNCHANGED cacheVars

HandleException_propagates ==
    /\ pc = "exc"
    /\ pc' = "raised"
    /\ UNCHANGED <<pipeVars, phase, exc, callVars, cacheVars, runVars>>

\* the RuntimeErrors of _post_tr, fn_au10001 and get_access_token
\* (kiwoom.py:147, 183, 230, 232)
RuntimeErrors == {"TransactionError", "RetryExhaustedError",
                  "TokenIssuanceError"}

HandleException_runtime_errors_propagate ==
    /\ pc = "exc"
    /\ IF phase = "list" \/ exc.kind \in RuntimeErrors
       THEN /\ pc' = "raised"
            /\ UNCHANGED <<pipeVars, phase, exc, callVars, runVars>>
       ELSE /\ caught' = caught + 1
            /\ perCodeSleeps' = perCodeSleeps + 1
            /\ NextCode
            /\ UNCHANGED <<markets, qry_dt, now, rival, mi, all_items, stocks,
                           codes, out, listSleeps>>
    /\ UNCHANGED cacheVars

\* an exception leaves _post_tr or the conversion: the per-code loop
\* catches it, logs and pauses; outside the loop it ends the run
\* (kiwoom.py:359, 390-393)
HandleException ==
    /\ pc = "exc"
    /\ IF phase = "list"
       THEN /\ pc' = "raised"
            /\ UNCHANGED <<pipeVars, phase, exc, callVars, runVars>>
       ELSE /\ caught' = caught + 1
            /\ perCodeSleeps' = perCodeSleeps + 1
            /\ NextCode
            /\ UNCHANGED <<markets, qry_dt, now, rival, mi, all_items, stocks, codes, out,
                           listSleeps>>
    /\ UNCHANGED cacheVars

Next ==
    \/ Collect
    \/ GetToken
    \/ IssueToken
    \/ Reread
    \/ Evict
    \/ PostAttempt
    \/ ListReturn
    \/ PriceReturn
    \/ BasicReturn
    \/ Merge
    \/ HandleException

Spec == Init /\ [][Next]_vars

TypeOK ==
    /\ pc \in {"start", "get_token", "issue", "reread", "post", "ret",
               "merge", "exc", "done", "raised"}
    /\ phase \in {"none", "list", "price", "basic"}
    /\ attempt \in 0..MAX_RETRIES
    /\ Len(all_items) <= MaxItems
    /\ idx \in 0..(Len(codes) + 1)
    /\ Len(out) <= Len(codes)
    /\ Len(stocks) = Len(codes)
    /\ now \in NowInstants
    /\ rival = NoRival
    /\ ttl \in {0} \cup {ttl_from_expires_dt(e, now) : e \in ExpiryInstants}

\* ------------------------------------------------------------------------
\* Properties
\* ------------------------------------------------------------------------
\* the statuses the specification calls transient
TransientStatuses == {429, 500, 502, 503, 504}

\* the cache holds an entry whose token is not empty
HasNonEmptyToken(c) == c # <<>> /\ c[1].token # <<>>

\* C1: no exception raised while a code's price record or fundamentals are
\* fetched or its row is merged escapes the per-code loop: a run ends with
\* an exception only in the instrument-list phase, and a run that reached
\* the loop returns after the loop has been through every code.
C1_ErrorsStayInLoop ==
    /\ pc = "raised" => phase = "list" /\ codes = <<>> /\ out = <<>>
    /\ pc = "exc" /\ phase # "list" => idx \in 1..Len(codes)
    /\ pc = "done" => idx = Len(codes) + 1
    /\ caught <= perCodeSleeps

\* C1 witness: the first of two different codes raised, was caught, and the
\* second still produced the only row of the returned list.
C1_Witness ==
    /\ pc = "done"
    /\ Len(codes) = 2
    /\ codes[1] # codes[2]
    /\ caught = 1
    /\ out = <<Row(codes[2], qry_dt)>>

\* C2: a row is appended only for the code in progress, when its price
\* lookup returned a record and its fundamentals lookup returned; a code
\* whose price lookup returned no record, or whose lookups or merge raised,
\* is left without a row.
C2_RowOnlyIfBothLookups ==
    [][ /\ out' # out =>
            /\ pc = "merge"
            /\ phase = "basic"
            /\ lastResponse.status = 200
            /\ daily = "row"
            /\ basic = "record"
            /\ out' = Append(out, Row(codes[idx], qry_dt))
            /\ idx' = idx + 1
        /\ idx >= 1 /\ idx' = idx + 1 /\ pc = "ret" => out' = out
        /\ idx >= 1 /\ idx' = idx + 1 /\ pc = "exc" => out' = out
        /\ Len(out') <= Len(codes') ]_vars

\* C2 witness: of two codes, one got a row, the other was skipped because
\* its price lookup returned no record (nothing was caught).
C2_Witness ==
    /\ pc = "done"
    /\ Len(codes) = 2
    /\ Len(out) = 1
    /\ caught = 0

\* C3: after each surviving code the pipeline sleeps per_code_sleep exactly
\* once whatever the outcome, so the per-code sleeps made so far are as many
\* as the codes the loop is through.
C3_SleepAfterEveryCode ==
    idx >= 1 => perCodeSleeps = idx - 1

\* C4: a response whose status is neither 200 nor transient ends the call
\* at once with a TransactionError: no sleep for that response (every
\* earlier attempt had its one sleep) and no further attempt.
C4_NonRetryableFailsAtOnce ==
    (/\ lastResponse.kind = "http"
     /\ lastResponse.status \notin {200} \cup TransientStatuses)
    => /\ pc \in {"exc", "raised"}
       /\ exc.kind = "TransactionError"
       /\ exc.site = "_post_tr:230"
       /\ lastSleep = NoSleep
       /\ sleeps = attempt - 1

\* C4 witness: a non-retryable status on the third attempt of a price
\* request.
C4_Witness ==
    /\ pc = "exc"
    /\ phase = "price"
    /\ exc.kind = "TransactionError"
    /\ lastResponse.status = 400
    /\ attempt = 3

\* C5: a call makes at most 8 attempts; 8 transient responses in a row end
\* it with a RetryExhaustedError naming the API id, and that error is
\* raised after exactly 8 attempts.
C5_AtMostEightAttempts ==
    /\ attempt <= 8
    /\ (/\ attempt = 8
        /\ lastResponse.kind = "http"
        /\ lastResponse.status \in TransientStatuses)
       => /\ pc \in {"exc", "raised"}
          /\ exc.kind = "RetryExhaustedError"
          /\ exc.api_id = ApiId(phase)
    /\ exc.kind = "RetryExhaustedError" => attempt = 8 /\ sleeps = 8

\* C5 witness: the retries of a fundamentals request are exhausted.
C5_Witness ==
    /\ pc = "exc"
    /\ phase = "basic"
    /\ exc.kind = "RetryExhaustedError"
    /\ exc.api_id = "ka10001"
    /\ attempt = 8

\* C6: a call that returns got k transient responses (k in 0..7) and then a
\* 200: it made k+1 attempts and k sleeps, none after the 200, it returns
\* the body of that 200, and the backoff at a sleep is never below the
\* backoff at the sleep before.
C6_RetriesThenSuccess ==
    /\ pc = "ret" =>
          /\ sleeps \in 0..7
          /\ attempt = sleeps + 1
          /\ lastResponse.status = 200
          /\ body = lastResponse.body
          /\ lastSleep = NoSleep
    /\ pc = "post" /\ attempt >= 1 =>
          /\ sleeps = attempt
          /\ lastSleep # NoSleep
          /\ lastSleep.prev <= lastSleep.backoff
          /\ lastSleep.backoff <= backoff

\* C6 witness: seven transient responses, then a 200 on the eighth attempt.
C6_Witness ==
    /\ pc = "ret"
    /\ sleeps = 7
    /\ attempt = 8

\* C7 as stated: get_access_token is invoked before every attempt of a
\* call, so a call has asked for the token at least as often as it has
\* posted.
C7_TokenBeforeEveryAttempt ==
    attempt <= tokenCalls

\* C7 amended: get_access_token is invoked once per call, before the first
\* attempt; every attempt of the call carries the token obtained then, a
\* retry the same token as the attempt before it.
C7_TokenOncePerCall ==
    [][ attempt' = attempt + 1 =>
            /\ tokenCalls' = 1
            /\ sentAuth' = token
            /\ sentAuth' # <<>>
            /\ attempt >= 1 => sentAuth' = sentAuth ]_vars

\* C7 witness: a third attempt was made with a token the cache no longer
\* holds.
C7_Witness ==
    /\ attempt = 3
    /\ sentAuth # <<>>
    /\ cache = <<>>
    /\ evictions = 1

\* C8: a credential grant is requested only while the cache holds no
\* non-empty token; a non-empty cached token is returned as it is, with no
\* grant and no cache write; and in a run without eviction the token
\* endpoint is called at most once.
C8_GrantOnlyOnMiss ==
    /\ [](pc = "issue" => ~HasNonEmptyToken(cache))
    /\ [](evictions = 0 => grantCalls <= 1)
    /\ [][ (pc = "get_token" /\ pc' # "get_token" /\ HasNonEmptyToken(cache))
           => /\ pc' = "post"
              /\ token' = cache[1].token
              /\ grantCalls' = grantCalls
              /\ setCalls' = setCalls
              /\ cache' = cache ]_vars

\* C8 witness: a whole run over two codes with one credential grant and no
\* eviction.
C8_Witness ==
    /\ pc = "done"
    /\ Len(codes) = 2
    /\ Len(out) = 2
    /\ evictions = 0
    /\ grantCalls = 1

\* C9: after the grant the cache is read again: the token found there is
\* returned, and when it holds no non-empty token the call fails with a
\* TokenIssuanceError; the token a call works with is never empty.
C9_RereadOrFail ==
    /\ [](pc \in {"post", "ret", "merge"} => token # <<>>)
    /\ [][ (pc = "reread" /\ pc' # "reread")
           => IF HasNonEmptyToken(cache)
              THEN /\ pc' = "post"
                   /\ token' = cache[1].token
              ELSE /\ pc' = "exc"
                   /\ exc'.kind = "TokenIssuanceError"
                   /\ exc'.site = "get_access_token:183"
                   /\ token' = <<>> ]_vars

\* C9 witness: the entry written after the grant was gone at the second
\* read, and the call failed.
C9_Witness ==
    /\ pc = "exc"
    /\ exc.site = "get_access_token:183"
    /\ setCalls = 1
    /\ issuerResp.token # <<>>
    /\ cache = <<>>

\* C10: an issuer response without token or without expires_dt fails the
\* issuance with a TokenIssuanceError and leaves the cache as it was:
\* set_token is not called.
C10_MalformedGrantLeavesCache ==
    [][ (/\ pc = "issue"
         /\ pc' # "issue"
         /\ issuerResp'.http = "ok"
         /\ \/ issuerResp'.token = <<>>
            \/ issuerResp'.expires_kind \in {"absent", "empty"})
        => /\ pc' = "exc"
           /\ exc'.kind = "TokenIssuanceError"
           /\ exc'.site = "fn_au10001:147"
           /\ cache' = cache
           /\ setCalls' = setCalls ]_vars

\* C10 witness: the issuer sent a token without expires_dt; the entry with
\* the empty token is still in the cache.
C10_Witness ==
    /\ pc = "exc"
    /\ exc.site = "fn_au10001:147"
    /\ issuerResp.token # <<>>
    /\ issuerResp.expires_kind = "absent"
    /\ cache # <<>>
    /\ cache[1].token = <<>>
    /\ setCalls = 0

\* ------------------------------------------------------------------------
\* TTL computation on its own (kiwoom.py:28-36, 149-150)
\* ------------------------------------------------------------------------
Instants == 0..MaxInstant

\* a well-formed credential grant expiring at any instant, answered at any
\* clock reading: the expiry may lie before the clock
TtlGrant(e) ==
    [NoIssuerResponse EXCEPT !.http = "ok", !.token = <<1>>,
                             !.expires_kind = "valid", !.expires_dt = e]

InitTtl ==
    /\ markets = <<>>
    /\ now \in Instants
    /\ rival = NoRival
    /\ all_items = <<>>
    /\ pc = "ttl"
    /\ \E e \in Instants : issuerResp = TtlGrant(e)
    /\ cache = <<>>
    /\ InitPipeline
    /\ InitCall
    /\ InitRun

\* fn_au10001, lines 149-150: the TTL of the grant, then the cache write
ComputeTtl ==
    /\ pc = "ttl"
    /\ ttl' = ttl_from_expires_dt(issuerResp.expires_dt, now)
    /\ cache' = set_token(issuerResp.token, ttl', issuerResp.token_type)
    /\ setCalls' = setCalls + 1
    /\ pc' = "ttl_done"
    /\ UNCHANGED <<pipeVars, phase, exc, token, backoff, attempt, body, sleeps,
                   lastSleep, tokenCalls, sentAuth, lastResponse, issuerResp,
                   grantCalls, evictions, runVars>>

NextTtl == ComputeTtl

SpecTtl == InitTtl /\ [][NextTtl]_vars

\* C11: for every expiry and every clock reading in whole seconds the TTL is
\* max(60, (expiry - now) - 30): the difference less 30 when that is at least
\* 60, exactly 60 otherwise (an expiry in the past included), and the expiry
\* the cache entry is written with is that TTL, never below 60
C11_TtlIsFlooredDifference ==
    pc = "ttl_done" =>
        LET d == (issuerResp.expires_dt - now) - 30
        IN  /\ d >= 60 => ttl = d
            /\ d < 60 => ttl = 60
            /\ issuerResp.expires_dt <= now => ttl = 60
            /\ cache # <<>>
            /\ cache[1].ex = ttl
            /\ cache[1].ex >= 60

\* a grant already expired when it is answered has been given its TTL
C11_Witness ==
    /\ pc = "ttl_done"
    /\ issuerResp.expires_dt < now
    /\ ttl = 60

\* ------------------------------------------------------------------------
\* filter_stock_list on its own (kiwoom.py:101-120)
\* ------------------------------------------------------------------------
\* code fields a list answer can carry: six digits, too short, too long, a
\* letter inside, blanks around six digits, a digit that is not ASCII
FilterCodes ==
    { <<"0", "0", "5", "9", "3", "0">>,
      <<"1", "2", "3", "4", "5">>,
      <<"1", "2", "3", "4", "5", "6", "7">>,
      <<"1", "2", "A", "4", "5", "6">>,
      <<" ", "0", "0", "5", "9", "3", "0">>,
      <<"0", "0", "5", "9", "3", "0", "\n">>,
      <<"fullwidth_1", "2", "3", "4", "5", "6">> }

\* names: a common stock, the same between blanks, a preferred share, an
\* ETF brand, a leveraged product
FilterNames ==
    { <<"k_sam", "k_seong", "k_jeon", "k_ja">>,
      <<" ", "k_sam", "k_seong", "k_jeon", "k_ja", " ">>,
      <<"k_sam", "k_seong", "k_jeon", "k_ja", "k_u">>,
      <<"K", "O", "D", "E", "X", " ", "2", "0", "0">>,
      <<"K", "B", " ", "2", "x">> }

FilterItems ==
    { [code |-> c, name |-> n, companyClassName |-> <<>>] :
          c \in FilterCodes, n \in FilterNames }
    \cup { [code |-> c, name |-> <<"k_sam", "k_seong", "k_jeon", "k_ja">>,
            companyClassName |-> <<"e", "t", "f">>] : c \in FilterCodes }

InitFilter ==
    /\ markets = <<>>
    /\ now \in NowInstants
    /\ rival = NoRival
    /\ all_items \in SeqsUpTo(FilterItems, MaxItems)
    /\ pc = "filter"
    /\ issuerResp = NoIssuerResponse
    /\ cache = <<>>
    /\ InitPipeline
    /\ InitCall
    /\ InitRun

\* stocks = filter_stock_list(all_items), line 359
ApplyFilter ==
    /\ pc = "filter"
    /\ stocks' = filter_stock_list(all_items)
    /\ codes' = [i \in 1..Len(stocks') |-> stocks'[i].code]
    /\ pc' = "filtered"
    /\ UNCHANGED <<markets, qry_dt, now, rival, mi, all_items, idx, daily,
                   basic, out, phase, exc, callVars, cacheVars, runVars>>

\* the filter applied to its own output; all_items keeps the first output
ApplyFilterAgain ==
    /\ pc = "filtered"
    /\ all_items' = stocks
    /\ stocks' = filter_stock_list(stocks)
    /\ codes' = [i \in 1..Len(stocks') |-> stocks'[i].code]
    /\ pc' = "refiltered"
    /\ UNCHANGED <<markets, qry_dt, now, rival, mi, idx, daily, basic, out,
                   phase, exc, callVars, cacheVars, runVars>>

NextFilter == ApplyFilter \/ ApplyFilterAgain

SpecFilter == InitFilter /\ [][NextFilter]_vars

SixAsciiDigits(code) ==
    /\ Len(code) = 6
    /\ \A i \in 1..Len(code) : code[i] \in AsciiDigits

\* C12: every instrument the filter lets through has a code field of exactly
\* six ASCII digits and a name and class no exclusion rule fires on, and an
\* input instrument whose code field is not exactly six ASCII digits is not
\* in the output
C12_OutputCodesAreSixAsciiDigits ==
    pc = "filtered" =>
        /\ \A i \in 1..Len(stocks) :
              /\ SixAsciiDigits(stocks[i].code)
              /\ ~is_non_common_stock(stocks[i].name,
                                      stocks[i].companyClassName)
        /\ \A j \in 1..Len(all_items) :
              ~SixAsciiDigits(all_items[j].code)
                  => all_items[j] \notin Range(stocks)

\* C16: the filter applied to its own output returns that output, the same
\* items in the same order
C16_FilterIdempotent ==
    pc = "refiltered" => stocks = all_items

\* the filter has been applied twice to a list it kept something of
C16_Witness ==
    /\ pc = "refiltered"
    /\ Len(stocks) = 2
    /\ stocks[1] # stocks[2]

CodesOf(rows) == [i \in 1..Len(rows) |-> rows[i].code]

RECURSIVE IsSubsequence(_, _)
\* a is b with some elements left out
IsSubsequence(a, b) ==
    IF a = <<>> THEN TRUE
    ELSE IF b = <<>> THEN FALSE
    ELSE IF Head(a) = Head(b) THEN IsSubsequence(Tail(a), Tail(b))
    ELSE IsSubsequence(a, Tail(b))

\* C13: the list answers are accumulated market by market in response order,
\* the surviving codes are those of the filtered list in that order, they are
\* processed one after the other from the first, and a row is only ever
\* appended, for the code being processed: the codes of the rows are a
\* subsequence of the codes processed so far
C13_RowsFollowListOrder ==
    /\ [](codes = CodesOf(stocks))
    /\ [](IF idx = 0 THEN out = <<>>
            ELSE IsSubsequence(CodesOf(out), SubSeq(codes, 1, idx - 1)))
    /\ [][/\ idx' \in {idx, idx + 1}
          /\ (pc = "ret" /\ phase = "list") =>
                IF mi < Len(markets)
                THEN all_items' = all_items \o body.list
                ELSE stocks' = filter_stock_list(all_items \o body.list)
          /\ out' # out =>
                /\ out' = Append(out, Row(codes[idx], qry_dt))
                /\ idx' = idx + 1]_vars

\* two instruments listed against the sort order both got their row
C13_Witness ==
    /\ pc = "done"
    /\ codes = << <<"0", "0", "5", "9", "3", "0">>,
                  <<"0", "0", "0", "6", "6", "0">> >>
    /\ CodesOf(out) = codes

\* C14 as stated: a TransactionError, a RetryExhaustedError or a
\* TokenIssuanceError raised at any point of a run, in the list phase or in a
\* per-code fetch, ends the run with that error and no row list is returned
C14_RuntimeErrorsAlwaysFatal ==
    [][(pc = "exc" /\ exc.kind \in RuntimeErrors) => pc' \in {"exc", "raised"}]_vars

\* C14, amended: such an error ends the run only when raised in the list
\* phase, and then nothing is returned; raised in a price or fundamentals
\* fetch it is caught, the code gets no row, the rows so far are kept and
\* the run goes on to the next code or returns
C14_RuntimeErrorsFatalInListPhaseOnly ==
    /\ [](pc = "raised" => phase = "list" /\ out = <<>> /\ idx = 0)
    /\ [][(pc = "exc" /\ exc.kind \in RuntimeErrors /\ pc' # "exc") =>
            IF phase = "list"
            THEN pc' = "raised" /\ exc' = exc
            ELSE /\ pc' \in {"get_token", "done"}
                 /\ out' = out
                 /\ idx' = idx + 1
                 /\ caught' = caught + 1
                 /\ pc' = "done" <=> idx = Len(codes)]_vars

\* a fundamentals fetch ran out of attempts after an earlier code got its row
C14_Witness ==
    /\ pc = "exc"
    /\ phase = "basic"
    /\ exc.kind = "RetryExhaustedError"
    /\ Len(out) = 1

\* the stk_cd of the price or fundamentals request of the current pass of
\* the loop (kiwoom.py:365, 367, 371)
RequestCode == codes[idx]

\* C15: while a price or fundamentals transaction is under way every list
\* transaction has completed, the code asked for is the code of an
\* instrument the filter kept, on whose name and class no exclusion rule
\* fires, and a fundamentals transaction follows a price transaction that
\* returned a record for that code; the codes are fixed when the list phase
\* ends and hold no code of an instrument the filter excluded
C15_FetchOnlySurvivors ==
    /\ [](phase \in {"price", "basic"} =>
            /\ listSleeps = Len(markets)
            /\ mi = 0
            /\ idx \in 1..Len(stocks)
            /\ RequestCode = stocks[idx].code
            /\ phase = "basic" => daily \in DailyKinds /\ ~NotDaily(daily))
    /\ [][/\ (phase = "list" /\ phase' = "price") =>
                /\ \A item \in Range(all_items \o body.list) :
                      is_non_common_stock(item.name, item.companyClassName)
                          => item.code \notin Range(codes')
                /\ \A i \in 1..Len(stocks') :
                      ~is_non_common_stock(Strip(stocks'[i].name),
                                           Strip(stocks'[i].companyClassName))
          /\ phase \in {"price", "basic"} => codes' = codes /\ stocks' = stocks
          /\ phase' = "basic" => phase \in {"price", "basic"} /\ idx' = idx]_vars

\* the fundamentals of the only surviving code are being fetched after its
\* price record came back
C15_Witness ==
    /\ phase = "basic"
    /\ pc = "post"
    /\ Len(stocks) = 1
    /\ listSleeps = 1
    /\ daily = "row"

\* C17: in hundredths of a second, the backoff is 60 at the first attempt and
\* min(1500, 2 x backoff) after each transient response, so the sleeps of a
\* call see 60, 120, 240, 480, 960, 1500, 1500, 1500 and the backoff stays
\* within [60, 1500]; a numeric Retry-After is slept exactly, and every other
\* transient response is slept d with
\* min(1500, backoff) <= d <= min(1500, backoff) + 30
C17_BackoffScheduleAndSleep ==
    LET schedule == <<60, 120, 240, 480, 960, 1500, 1500, 1500>>
    IN  /\ pc = "post" => backoff >= 60 /\ backoff <= 1500
        /\ (pc = "post" /\ sleeps < 8) => backoff = schedule[sleeps + 1]
        /\ lastSleep # NoSleep =>
              /\ sleeps \in 1..8
              /\ lastSleep.backoff = schedule[sleeps]
              /\ backoff = IF 2 * lastSleep.backoff <= 1500
                           THEN 2 * lastSleep.backoff ELSE 1500
              /\ IF lastSleep.retry_after = "numeric"
                 THEN lastSleep.d = lastResponse.retry_after.value
                 ELSE LET floor == IF lastSleep.backoff <= 1500
                                   THEN lastSleep.backoff ELSE 1500
                      IN  /\ floor <= lastSleep.d
                          /\ lastSleep.d <= floor + 30

\* the eighth transient response, without Retry-After, was slept with the
\* backoff at its cap and the largest jitter
C17_Witness ==
    /\ sleeps = 8
    /\ lastSleep.retry_after = "absent"
    /\ lastSleep.backoff = 1500
    /\ lastSleep.d = 1530

\* ------------------------------------------------------------------------
\* Two collectors on one cache key (kiwoom.py:165-184, token_store.py:17-25)
\* ------------------------------------------------------------------------
\* a second process is about to call get_access_token
RivalStarts == [NoRival EXCEPT !.pc = "get_token"]

\* everything a step of the second process leaves alone
nonRivalVars ==
    <<markets, qry_dt, now, mi, all_items, stocks, codes, idx, daily, basic,
      out, pc, phase, exc, callVars, grantCalls, evictions, runVars>>

\* the grants of the second process are answered with tokens <<-1>>, <<-2>>,
\* which no grant of the first process is answered with
RivalIssuerResponses == IssuerResponses(0 - (rival.grants + 1))

InitRace ==
    /\ markets = <<"0">>
    /\ now \in NowInstants
    /\ rival \in {NoRival, RivalStarts}
    /\ all_items = <<>>
    /\ pc = "start"
    /\ issuerResp = NoIssuerResponse
    /\ cache \in InitialCaches
    /\ InitPipeline
    /\ InitCall
    /\ InitRun

\* get_access_token of the second process, first read (kiwoom.py:170-172)
RivalGetToken ==
    /\ rival.pc = "get_token"
    /\ LET cached == get_token(cache)
       IN  IF CacheHit(cached)
           THEN rival' = [rival EXCEPT !.pc = "returned",
                                       !.token = cached[1].token]
           ELSE rival' = [rival EXCEPT !.pc = "issue"]
    /\ UNCHANGED <<nonRivalVars, cache>>

\* fn_au10001 of the second process (kiwoom.py:133-154)
RivalIssueToken ==
    /\ rival.pc = "issue"
    /\ \E resp \in RivalIssuerResponses :
          IF resp.http = "error" \/ IssuanceMalformed(resp)
                                \/ resp.expires_kind # "valid"
          THEN /\ rival' = [rival EXCEPT !.pc = "raised",
                                         !.grants = rival.grants + 1]
               /\ UNCHANGED cache
          ELSE /\ rival' = [rival EXCEPT !.pc = "reread",
                                         !.grants = rival.grants + 1,
                                         !.sets = rival.sets + 1,
                                         !.issued = resp.token]
               /\ cache' = set_token(resp.token,
                                     ttl_from_expires_dt(resp.expires_dt, now),
                                     resp.token_type)
    /\ UNCHANGED nonRivalVars

\* get_access_token of the second process, second read (kiwoom.py:181-184)
RivalReread ==
    /\ rival.pc = "reread"
    /\ LET cached == get_token(cache)
       IN  IF ~CacheHit(cached)
           THEN rival' = [rival EXCEPT !.pc = "raised"]
           ELSE rival' = [rival EXCEPT !.pc = "returned",
                                       !.token = cached[1].token]
    /\ UNCHANGED <<nonRivalVars, cache>>

\* the first process runs up to the return of the get_access_token of its
\* first _post_tr, the second through one get_access_token
NextRace ==
    \/ Collect
    \/ GetToken
    \/ IssueToken
    \/ Reread
    \/ Evict
    \/ RivalGetToken
    \/ RivalIssueToken
    \/ RivalReread

SpecRace == InitRace /\ [][NextRace]_vars

\* C18: a collector sends a credential grant only after its own read of the
\* cache found no entry with a token, and at most one per get_access_token;
\* a successful grant writes its token over whatever the cache holds. With
\* one collector a miss is followed by exactly one grant, there are never two
\* grants for one miss, and the entry it re-reads is the one it wrote unless
\* the entry expired in between
C18_OneGrantPerMissWhenAlone ==
    /\ [](grantCalls <= 1 /\ rival.grants <= 1)
    /\ [](rival.pc = "absent" =>
            /\ grantCalls + rival.grants <= 1
            /\ grantCalls = 1 <=> pc \in {"issue", "reread", "post", "exc"}
                                  /\ issuerResp # NoIssuerResponse
            /\ (pc = "reread" /\ cache # <<>>) =>
                   cache[1].token = issuerResp.token)
    /\ [][/\ (pc = "get_token" /\ pc' # pc) =>
                (pc' = "issue" <=> ~HasNonEmptyToken(cache))
          /\ (pc = "issue" /\ pc' # pc) => grantCalls' = grantCalls + 1
          /\ grantCalls' # grantCalls =>
                pc = "issue" /\ grantCalls' = grantCalls + 1
          /\ (rival.pc = "get_token" /\ rival' # rival) =>
                (rival'.pc = "issue" <=> ~HasNonEmptyToken(cache))
          /\ rival'.grants # rival.grants => rival.pc = "issue"
          /\ (cache' # cache /\ cache' # <<>>) =>
                \/ pc = "issue" /\ cache'[1].token = issuerResp'.token
                \/ rival.pc = "issue" /\ cache'[1].token = rival'.issued]_vars

\* both collectors found the cache empty and were granted a token; the
\* second wrote last, and the first returned from its re-read with the
\* second's token, its own gone from the cache
C18_Witness ==
    /\ evictions = 0
    /\ grantCalls = 1
    /\ rival.grants = 1
    /\ setCalls = 1
    /\ rival.sets = 1
    /\ issuerResp.token = <<1>>
    /\ cache # <<>>
    /\ cache[1].token = rival.issued
    /\ pc = "post"
    /\ token = rival.issued

\* C19: the rows collected hold at most one row for a code and query date,
\* whatever the list answers were, a code listed under two markets or twice
\* in one list included
C19_OneRowPerCodeAndDate ==
    \A i, j \in 1..Len(out) :
        i # j => <<out[i].code, out[i].dt>> # <<out[j].code, out[j].dt>>

\* how far the current _post_tr call is from leaving it, at most
CallRank ==
    LET stage == CASE pc = "get_token" -> 7
                   [] pc = "issue" -> 6
                   [] pc = "reread" -> 5
                   [] pc = "post" -> 4
                   [] pc = "ret" -> 3
                   [] pc = "merge" -> 2
                   [] pc = "exc" -> 1
                   [] OTHER -> 0
    IN  IF stage = 0 THEN 0
        ELSE stage * (MAX_RETRIES + 1) + (MAX_RETRIES - attempt)

\* the transactions the run can still begin, at most
CallsLeft ==
    CASE pc = "start" -> Len(markets) + 2 * MaxItems + 1
      [] pc \in {"done", "raised"} -> 0
      [] phase = "list" -> (Len(markets) - mi) + 2 * MaxItems
      [] phase = "price" -> 2 * (Len(codes) - idx) + 1
      [] OTHER -> 2 * (Len(codes) - idx)

\* a bound on the steps left in the run
Rank ==
    CallsLeft * (8 * (MAX_RETRIES + 1)) + CallRank + (MaxEvictions - evictions)

\* C20: a run finishes. Every step lowers a measure that is never negative,
\* and a run that has neither returned nor raised can take a step; a
\* transaction makes at most 8 attempts; a price transaction begins only as
\* the loop moves to the next code and a fundamentals transaction only after
\* the price transaction of the same pass, so each occurrence of a code is
\* processed once
C20_RunTerminates ==
    /\ [](Rank >= 0 /\ attempt <= 8 /\ idx <= Len(codes) + 1)
    /\ [](pc \notin {"done", "raised"} => ENABLED Next)
    /\ [][/\ Rank' < Rank
          /\ idx' \in {idx, idx + 1}
          /\ (pc' = "get_token" /\ pc # "get_token") =>
                /\ phase' = "price" => idx' = idx + 1
                /\ phase' = "basic" => phase = "price" /\ idx' = idx
                /\ phase' = "list" => mi' = mi + 1 /\ mi' <= Len(markets)]_vars

\* a run over two codes returned: one code got its row, the other failed
C20_Witness ==
    /\ pc = "done"
    /\ Len(codes) = 2
    /\ Len(out) = 1
    /\ caught = 1

============================================================================
